---- MODULE Spec2Model ----
(***************************************************************************)
(* A model of openscienceframework/manager.py: the ConnectionManager that  *)
(* issues GET/POST/PUT/DELETE requests through Qt's network access         *)
(* manager, funnels every finished reply through __reply_finished, chases  *)
(* GET redirects up to MAX_REDIRECTS, and logs in from a stored token.     *)
(*                                                                         *)
(* A logical operation is one call of get/post/put/delete by a caller and  *)
(* every request re-issued for it.  Each operation keeps a trace (log) of  *)
(* the externally visible effects its handlers produced, in program order. *)
(***************************************************************************)
EXTENDS Integers, Sequences, FiniteSets, TLC

VARIABLES
    networkAccessible,  \* QNetworkAccessManager.networkAccessible() # NotAccessible
    session,            \* osf.session.token: "none" or the name of a token
    ops,                \* the logical operations started so far, in call order
    tokenfile,          \* what is stored at self.tokenfile
    now,                \* time.time()
    logins              \* one record per call of login()

vars == <<networkAccessible, session, ops, tokenfile, now, logins>>

----------------------------------------------------------------------------
(* Program constants and bounds *)

MAX_REDIRECTS == 5

\* The number of calls of get/post/put/delete explored.
MaxOps == 1
\* The number of calls of login() explored.
MaxLogins == 2
\* Clock values and expiry timestamps range over 0..MaxTime.
MaxTime == 2
\* The number of bytes the replies of one download deliver.
MaxBytes == 2
\* The number of GET operations started while others are still in flight.
MaxInFlight == 2

----------------------------------------------------------------------------
(* Helpers on sequences and on keyword-argument bags.  A kwargs bag is a   *)
(* function from the keys present to their values.                         *)

Count(s, e) == Cardinality({i \in DOMAIN s : s[i] = e})

\* The index of the first occurrence of e in s, 0 when there is none.
FirstIndex(s, e) ==
    IF \E i \in DOMAIN s : s[i] = e
    THEN CHOOSE i \in DOMAIN s : s[i] = e /\ \A j \in 1..(i-1) : s[j] # e
    ELSE 0

\* dict.pop(k, None)
Pop(kw, k) == [j \in DOMAIN kw \ {k} |-> kw[j]]

\* kwargs[k] = v
SetItem(kw, k, v) == [j \in DOMAIN kw \cup {k} |-> IF j = k THEN v ELSE kw[j]]

\* callable(kwargs.get(k, None))
CallableAt(kw, k) == k \in DOMAIN kw /\ kw[k] = "fn"

\* The keys __reply_finished removes before it calls the success callback.
InternalKeys ==
    {"redirect_count", "downloadProgress", "uploadProgress", "readyRead",
     "errorCallback", "abortSignal"}

\* A redirect_count a caller passes itself, beyond the limit.
CallerCount == MAX_REDIRECTS + 2

\* The keyword arguments callers pass in the explored calls.
KwargBags ==
    { <<>>,
      [errorCallback |-> "fn", payload |-> "v"],
      [errorCallback |-> "fn", abortSignal |-> "sig", readyRead |-> "fn",
       downloadProgress |-> "fn", uploadProgress |-> "fn",
       progressDialog |-> "dlg", payload |-> "v"],
      [redirect_count |-> CallerCount, errorCallback |-> "notcallable",
       abortSignal |-> "sig"] }

\* What a finished reply reports: reply.error() and its HTTP status code.
ReplyKinds ==
    { [error |-> "NoError", status |-> 200],
      [error |-> "NoError", status |-> 301],
      [error |-> "NoError", status |-> 302],
      [error |-> "OperationCanceledError", status |-> 0],
      [error |-> "AuthenticationRequiredError", status |-> 401],
      [error |-> "ContentNotFoundError", status |-> 404] }

CanceledReply == [error |-> "OperationCanceledError", status |-> 0]

IsRedirect(r) == r.status \in {301, 302}

\* The class of a finished reply, as kept in an operation's history.
Kind(r) ==
    IF r.error # "NoError" THEN r.error
    ELSE IF IsRedirect(r) THEN "redirect" ELSE "ok"

----------------------------------------------------------------------------
(* Logical operations *)

\* The record of a call that has just been made and has done nothing yet.
NewOp(method, url_ok, cb_ok, data_ok, kw) ==
    [ method      |-> method,
      url_ok      |-> url_ok,      \* url is a string or a QUrl
      cb_ok       |-> cb_ok,       \* callback is callable
      data_ok     |-> data_ok,     \* data_to_send has the type the method wants
      netAtCall   |-> networkAccessible,
      callKwargs  |-> kw,          \* the kwargs the caller passed
      pc          |-> "calling",   \* calling, inflight, done
      outcome     |-> "none",
      kwargs      |-> kw,          \* the kwargs bound in the finished handler
      replies     |-> <<>>,        \* the kinds of the replies that finished
      log         |-> <<>>,        \* the effects produced, in program order
      issuedAt    |-> <<>>,        \* redirect_count of each get/delete request
      cbKwargs    |-> <<>>,        \* the kwargs the success callback received
      cbReply     |-> 0,           \* the reply the success callback received
      auth        |-> "none",      \* Authorization header of the last request
      abortConnected |-> FALSE,    \* abortSignal is connected to reply.abort
      host        |-> "osf",       \* the host the current request goes to
      overlaps    |-> {},          \* the operations in flight when it started
      aborts      |-> {},          \* the pc values at which abort was emitted
      helper      |-> "none",      \* none, download (download_file), upload
      handleOpen  |-> FALSE,       \* the helper's tmp_file / source_file is open
      tmp         |-> <<>>,        \* the bytes written to the scratch file
      body        |-> <<>>,        \* the bytes the current reply has delivered
      destBefore  |-> [exists |-> FALSE, content |-> <<>>],
      dest        |-> [exists |-> FALSE, content |-> <<>>] ]  \* the destination

\* An exception leaves the call or the slot: nothing after it runs.
Raise(o, exc) == [o EXCEPT !.pc = "done", !.outcome = exc]

\* osf.is_authorized(): a session token is present.
is_authorized == session # "none"

AddTokenUnconditional == "token"

\* The Authorization header add_token sets on a request.
add_token == IF is_authorized THEN session ELSE "none"

\* super().get/post/put/deleteResource(request) and reply.finished.connect.
Dispatch(o, kw, connectsAbort) ==
    [o EXCEPT !.pc = "inflight",
              !.kwargs = kw,
              !.log = @ \o <<"add_token", "request">>,
              !.auth = add_token,
              !.body = <<>>,
              !.abortConnected = connectsAbort /\ "abortSignal" \in DOMAIN kw]

\* The decorator: with no network the wrapped function is not run.  The
\* wrapper's body names `self`, which is not bound in func_wrapper, so the
\* emit of "No network access" raises NameError before anything is emitted.
check_network_accessibility(o, wrapped) ==
    IF ~networkAccessible THEN Raise(o, "NameError") ELSE wrapped

ValidArgsNoCallbackCheck(url_ok, cb_ok) == url_ok

\* The argument checks at the top of get/post/put/delete.
ValidArgs(url_ok, cb_ok) == url_ok /\ cb_ok

WithRedirectCountShared(kw) ==
    LET own == IF "redirect_count" \in DOMAIN kw THEN kw["redirect_count"] ELSE 0
        others == {ops[j].kwargs["redirect_count"] :
                     j \in {k \in DOMAIN ops :
                              "redirect_count" \in DOMAIN ops[k].kwargs}}
        all == others \cup {own}
    IN  SetItem(kw, "redirect_count",
                CHOOSE m \in all : \A n \in all : n <= m)

\* kwargs['redirect_count'] = kwargs.get('redirect_count', 0)
WithRedirectCount(kw) ==
    IF "redirect_count" \in DOMAIN kw THEN kw ELSE SetItem(kw, "redirect_count", 0)

get(o, url_ok, cb_ok, kw) ==
    check_network_accessibility(o,
        IF ~ValidArgs(url_ok, cb_ok) THEN Raise(o, "TypeError")
        ELSE LET kw1 == WithRedirectCount(kw)
                 o1 == Dispatch(o, kw1, TRUE)
             IN [o1 EXCEPT !.issuedAt = Append(@, kw1["redirect_count"])])

post(o, url_ok, cb_ok, data_ok, kw) ==
    check_network_accessibility(o,
        IF ~ValidArgs(url_ok, cb_ok) \/ ~data_ok THEN Raise(o, "TypeError")
        ELSE Dispatch(o, kw, FALSE))

PutNoAbort(o, url_ok, cb_ok, data_ok, kw) ==
    check_network_accessibility(o,
        IF ~ValidArgs(url_ok, cb_ok) \/ ~data_ok THEN Raise(o, "TypeError")
        ELSE Dispatch(o, kw, FALSE))

put(o, url_ok, cb_ok, data_ok, kw) ==
    check_network_accessibility(o,
        IF ~ValidArgs(url_ok, cb_ok) \/ ~data_ok THEN Raise(o, "TypeError")
        ELSE Dispatch(o, kw, TRUE))

delete(o, url_ok, cb_ok, kw) ==
    check_network_accessibility(o,
        IF ~ValidArgs(url_ok, cb_ok) THEN Raise(o, "TypeError")
        ELSE LET kw1 == WithRedirectCount(kw)
                 o1 == Dispatch(o, kw1, TRUE)
             IN [o1 EXCEPT !.issuedAt = Append(@, kw1["redirect_count"])])

----------------------------------------------------------------------------
(* __reply_finished *)

ErrorNotifiedAlways(err) == TRUE

\* The generic error notification is skipped for a cancelled operation.
ErrorNotified(err) == err # "OperationCanceledError"

AuthRecoveryNoWindow(log, err) ==
    IF err = "AuthenticationRequiredError"
    THEN Append(log, "dispatch_logout")
    ELSE log

\* On "authentication required": dispatch the logout event, show the login
\* window; both after the notification already in the log.
AuthRecovery(log, err) ==
    IF err = "AuthenticationRequiredError"
    THEN log \o <<"dispatch_logout", "show_login_window">>
    ELSE log

\* if callable(errorCallback): errorCallback(reply)
CallErrorCallback(log, kw) ==
    IF CallableAt(kw, "errorCallback") THEN Append(log, "errorCallback") ELSE log

\* The branch taken when reply.error() != reply.NoError.
ErrorPath(o, err) ==
    LET l1 == IF ErrorNotified(err) THEN Append(o.log, "error_message") ELSE o.log
        l2 == AuthRecovery(l1, err)
        l3 == CallErrorCallback(l2, o.kwargs)
    IN [o EXCEPT !.pc = "done", !.outcome = "error",
                 !.log = Append(l3, "deleteLater")]

RedirectAllowedOffByOne(kw) == kw["redirect_count"] <= MAX_REDIRECTS

\* kwargs['redirect_count'] < self.MAX_REDIRECTS
RedirectAllowed(kw) == kw["redirect_count"] < MAX_REDIRECTS

\* The "Too Many redirects" exit.
TooManyRedirects(o) ==
    LET l1 == Append(o.log, "too_many_redirects")
        l2 == CallErrorCallback(l1, o.kwargs)
    IN [o EXCEPT !.pc = "done", !.outcome = "toomany",
                 !.log = Append(l2, "deleteLater")]

\* The continuation of a redirect: only a GET is re-issued, through get()
\* and so through its network guard and its argument checks.  target_ok
\* says whether the reply carried a redirection target (a QUrl); without
\* one the attribute is None and get() raises TypeError.  An exception of
\* get() leaves the slot before the final reply.deleteLater().
Reissue(o, kw, target_ok) ==
    IF o.method = "GET"
    THEN LET o1 == get(o, target_ok, TRUE, kw)
         IN IF o1.pc = "done" THEN o1   \* get raised: the slot ends there
            ELSE [o1 EXCEPT !.log = Append(@, "deleteLater")]
    ELSE [o EXCEPT !.pc = "done", !.outcome = "dropped", !.kwargs = kw,
                   !.log = Append(@, "deleteLater")]

RedirectPathNoReturn(o, target_ok) ==
    IF "redirect_count" \notin DOMAIN o.kwargs THEN Raise(o, "KeyError")
    ELSE IF RedirectAllowed(o.kwargs)
    THEN Reissue(o, SetItem(o.kwargs, "redirect_count",
                            o.kwargs["redirect_count"] + 1), target_ok)
    ELSE Reissue(TooManyRedirects(o), o.kwargs, target_ok)

\* The branch taken for HTTP status 301 or 302.
RedirectPath(o, target_ok) ==
    IF "redirect_count" \notin DOMAIN o.kwargs THEN Raise(o, "KeyError")
    ELSE IF RedirectAllowed(o.kwargs)
    THEN Reissue(o, SetItem(o.kwargs, "redirect_count",
                            o.kwargs["redirect_count"] + 1), target_ok)
    ELSE TooManyRedirects(o)

StripInternalKeepCount(kw) ==
    Pop(Pop(Pop(Pop(Pop(kw, "downloadProgress"), "uploadProgress"),
        "readyRead"), "errorCallback"), "abortSignal")

\* The six kwargs.pop calls before the success callback.
StripInternal(kw) ==
    Pop(Pop(Pop(Pop(Pop(Pop(kw, "redirect_count"), "downloadProgress"),
        "uploadProgress"), "readyRead"), "errorCallback"), "abortSignal")

\* What the file system answers while a download is saved:
\* QFile.remove(destination) and tmp_file.copy(destination).
IoOk == [remove_ok |-> TRUE, copy_ok |-> TRUE]

IoOutcomes == [remove_ok : BOOLEAN, copy_ok : BOOLEAN]

\* fcb = kwargs.pop('finishedCallback', None); if callable(fcb): fcb(...)
CallFinishedCallback(o) ==
    IF CallableAt(o.kwargs, "finishedCallback")
    THEN [o EXCEPT !.log = Append(@, "finishedCallback"),
                   !.kwargs = Pop(@, "finishedCallback")]
    ELSE [o EXCEPT !.kwargs = Pop(@, "finishedCallback")]

\* self.error_message.emit(_("Error saving file"), ...); return
SaveFailed(o) == [o EXCEPT !.log = Append(@, "error_saving_file")]

CopyTmpNoReturn(o, io) ==
    IF ~io.copy_ok
    THEN CallFinishedCallback(
             SaveFailed([o EXCEPT !.log = Append(@, "dest_copy_failed")]))
    ELSE CallFinishedCallback(
             [o EXCEPT !.log = Append(@, "dest_copy"),
                       !.dest = [exists |-> TRUE, content |-> o.tmp]])

\* if not tmp_file.copy(destination): notify and return; else the caller's
\* finished callback.
CopyTmp(o, io) ==
    IF ~io.copy_ok
    THEN SaveFailed([o EXCEPT !.log = Append(@, "dest_copy_failed")])
    ELSE CallFinishedCallback(
             [o EXCEPT !.log = Append(@, "dest_copy"),
                       !.dest = [exists |-> TRUE, content |-> o.tmp]])

DownloadFinishedRemoveNoReturn(o, io) ==
    LET closed == [o EXCEPT !.handleOpen = FALSE,
                            !.log = Append(@, "tmp_close")]
    IN  IF ~o.dest.exists THEN CopyTmp(closed, io)
        ELSE IF ~io.remove_ok
        THEN CopyTmp(SaveFailed([closed EXCEPT
                                   !.log = Append(@, "dest_remove_failed")]), io)
        ELSE CopyTmp([closed EXCEPT !.log = Append(@, "dest_remove"),
                                    !.dest = [exists |-> FALSE,
                                              content |-> <<>>]], io)

\* __download_finished, the success callback of download_file's GET.
download_finished(o, io) ==
    LET closed == [o EXCEPT !.handleOpen = FALSE,
                            !.log = Append(@, "tmp_close")]
    IN  IF ~o.dest.exists THEN CopyTmp(closed, io)
        ELSE IF ~io.remove_ok
        THEN SaveFailed([closed EXCEPT !.log = Append(@, "dest_remove_failed")])
        ELSE CopyTmp([closed EXCEPT !.log = Append(@, "dest_remove"),
                                    !.dest = [exists |-> FALSE,
                                              content |-> <<>>]], io)

\* __upload_finished, the success callback of upload_file's PUT.
upload_finished(o) ==
    CallFinishedCallback([o EXCEPT !.handleOpen = FALSE,
                                   !.log = Append(@, "source_close")])

\* callback(reply, *args, **kwargs): the helpers' own callbacks run here.
RunCallback(o, io) ==
    LET o1 == [o EXCEPT !.log = Append(@, "callback")]
    IN  IF o.helper = "download" THEN download_finished(o1, io)
        ELSE IF o.helper = "upload" THEN upload_finished(o1)
        ELSE o1

\* The branch taken for a reply that is neither an error nor a redirect.
SuccessPath(o, io) ==
    LET kw1 == StripInternal(o.kwargs)
        o1 == RunCallback([o EXCEPT !.pc = "done", !.outcome = "success",
                                    !.kwargs = kw1, !.cbKwargs = kw1,
                                    !.cbReply = Len(o.replies)], io)
    IN [o1 EXCEPT !.log = Append(@, "deleteLater")]

\* o.replies already holds the reply r that finished.
reply_finished(o, r, target_ok, io) ==
    IF r.error # "NoError" THEN ErrorPath(o, r.error)
    ELSE IF IsRedirect(r) THEN RedirectPath(o, target_ok)
    ELSE SuccessPath(o, io)

Finish(o, r, target_ok, io) ==
    reply_finished([o EXCEPT !.replies = Append(@, Kind(r))], r, target_ok, io)

----------------------------------------------------------------------------
(* Actions of the transfer engine *)

TransferFrame == UNCHANGED <<networkAccessible, session, tokenfile, now, logins>>

\* handle_logout, the manager's listener for the logout event: its first
\* statement reads self.osf, an attribute that is never set (osf is a module),
\* so it raises AttributeError before the session is reset.
handle_logout == [raised |-> "AttributeError", session |-> session]

\* The session after a reply was handled: only the authentication-required
\* branch touches it, through dispatch_logout and the logout listener.
SessionAfterReply(r) ==
    IF r.error = "AuthenticationRequiredError" THEN handle_logout.session
    ELSE session

\* What a finished reply leaves alone.
ReplyFrame == UNCHANGED <<networkAccessible, tokenfile, now, logins>>

Get ==
    /\ Len(ops) < MaxOps
    /\ \E url_ok \in BOOLEAN, cb_ok \in BOOLEAN, kw \in KwargBags :
         ops' = Append(ops, get(NewOp("GET", url_ok, cb_ok, TRUE, kw),
                                url_ok, cb_ok, kw))
    /\ TransferFrame

Post ==
    /\ Len(ops) < MaxOps
    /\ \E url_ok \in BOOLEAN, cb_ok \in BOOLEAN, data_ok \in BOOLEAN,
          kw \in KwargBags :
         ops' = Append(ops, post(NewOp("POST", url_ok, cb_ok, data_ok, kw),
                                 url_ok, cb_ok, data_ok, kw))
    /\ TransferFrame

Put ==
    /\ Len(ops) < MaxOps
    /\ \E url_ok \in BOOLEAN, cb_ok \in BOOLEAN, data_ok \in BOOLEAN,
          kw \in KwargBags :
         ops' = Append(ops, put(NewOp("PUT", url_ok, cb_ok, data_ok, kw),
                                url_ok, cb_ok, data_ok, kw))
    /\ TransferFrame

Delete ==
    /\ Len(ops) < MaxOps
    /\ \E url_ok \in BOOLEAN, cb_ok \in BOOLEAN, kw \in KwargBags :
         ops' = Append(ops, delete(NewOp("DELETE", url_ok, cb_ok, TRUE, kw),
                                   url_ok, cb_ok, kw))
    /\ TransferFrame

\* The transport finishes the in-flight reply of an operation and emits
\* finished(), which runs __reply_finished.
ReplyFinished ==
    /\ \E i \in DOMAIN ops, r \in ReplyKinds, target_ok \in BOOLEAN :
         /\ ops[i].pc = "inflight"
         /\ \E io \in (IF ops[i].helper = "download" THEN IoOutcomes
                        ELSE {IoOk}) :
              ops' = [ops EXCEPT ![i] = Finish(ops[i], r, target_ok, io)]
         /\ session' = SessionAfterReply(r)
    /\ ReplyFrame

\* The caller emits the abort signal it passed.  A connected in-flight reply
\* aborts and finishes at once as cancelled; a finished reply ignores it.
AbortSignal ==
    /\ \E i \in DOMAIN ops :
         /\ "abortSignal" \in DOMAIN ops[i].callKwargs
         /\ LET emitted == [ops[i] EXCEPT !.aborts = @ \cup {ops[i].pc}]
            IN  ops' = [ops EXCEPT ![i] =
                          IF ops[i].pc = "inflight" /\ ops[i].abortConnected
                          THEN Finish(emitted, CanceledReply, TRUE, IoOk)
                          ELSE emitted]
    /\ TransferFrame

\* The network comes up or goes down.
NetworkChange ==
    /\ networkAccessible' = ~networkAccessible
    /\ UNCHANGED <<session, ops, tokenfile, now, logins>>

Init ==
    /\ networkAccessible \in BOOLEAN
    /\ session \in {"none", "token"}
    /\ ops = <<>>
    /\ tokenfile = [kind |-> "absent", expires_at |-> 0]
    /\ now = 0
    /\ logins = <<>>

Next ==
    \/ Get
    \/ Post
    \/ Put
    \/ Delete
    \/ ReplyFinished
    \/ AbortSignal
    \/ NetworkChange

Spec == Init /\ [][Next]_vars

----------------------------------------------------------------------------
(* The session token and the hosts requests go to *)

\* The values osf.session.token takes: none, or one of two tokens.
Sessions == {"none", "token", "token2"}

\* The session token is set (a login completes), replaced or cleared
\* (reset_session) while requests may be in flight.
SessionChange ==
    /\ \E s \in Sessions : s # session /\ session' = s
    /\ UNCHANGED <<networkAccessible, ops, tokenfile, now, logins>>

\* Where a url points: an OSF server, or any other host.
Hosts == {"osf", "elsewhere"}

Methods == {"GET", "POST", "PUT", "DELETE"}

\* A valid call of one of the four request methods.
Call(o, kw) ==
    IF o.method = "GET" THEN get(o, TRUE, TRUE, kw)
    ELSE IF o.method = "POST" THEN post(o, TRUE, TRUE, TRUE, kw)
    ELSE IF o.method = "PUT" THEN put(o, TRUE, TRUE, TRUE, kw)
    ELSE delete(o, TRUE, TRUE, kw)

\* Operations are started one after another; ops holds the latest one only.
Request ==
    /\ \A j \in DOMAIN ops : ops[j].pc = "done"
    /\ \E m \in Methods, h \in Hosts, kw \in KwargBags :
         ops' = <<Call([NewOp(m, TRUE, TRUE, TRUE, kw) EXCEPT !.host = h], kw)>>
    /\ TransferFrame

\* redirect_url = reply.attribute(RedirectionTargetAttribute): the request
\* re-issued for a redirect goes to the host h the response names.
Retarget(before, after, h) ==
    IF Count(after.log, "request") > Count(before.log, "request")
    THEN [after EXCEPT !.host = h]
    ELSE after

ReplyFinishedAt ==
    /\ \E i \in DOMAIN ops, r \in ReplyKinds, h \in Hosts :
         /\ ops[i].pc = "inflight"
         /\ ops' = [ops EXCEPT ![i] =
                       Retarget(ops[i], Finish(ops[i], r, TRUE, IoOk), h)]
         /\ session' = SessionAfterReply(r)
    /\ ReplyFrame

NextSession ==
    \/ Request
    \/ ReplyFinishedAt
    \/ SessionChange

SpecSession == Init /\ [][NextSession]_vars

----------------------------------------------------------------------------
(* Several operations in flight at once *)

\* A valid GET is started while earlier operations may still be in flight.
ConcurrentGet ==
    /\ Len(ops) < MaxInFlight
    /\ \E kw \in {<<>>, [errorCallback |-> "fn"]} :
         ops' = Append(ops,
                  get([NewOp("GET", TRUE, TRUE, TRUE, kw) EXCEPT !.overlaps =
                         {j \in DOMAIN ops : ops[j].pc = "inflight"}],
                      TRUE, TRUE, kw))
    /\ TransferFrame

\* The replies that matter between operations: success, a redirect to an
\* existing target, and the authentication-required error.
ConcurrentReplyKinds ==
    {r \in ReplyKinds : r.error \in {"NoError", "AuthenticationRequiredError"}}

\* The replies of the operations in flight finish in any order.
ConcurrentReply ==
    /\ \E i \in DOMAIN ops, r \in ConcurrentReplyKinds :
         /\ ops[i].pc = "inflight"
         /\ ops' = [ops EXCEPT ![i] = Finish(ops[i], r, TRUE, IoOk)]
         /\ session' = SessionAfterReply(r)
    /\ ReplyFrame

NextConcurrent ==
    \/ ConcurrentGet
    \/ ConcurrentReply

SpecConcurrent == Init /\ [][NextConcurrent]_vars

----------------------------------------------------------------------------
(* download_file() and upload_file() *)

\* The byte values a reply body is made of.
Bytes == {"a", "b"}

\* The destination before a download: absent, or a file with older content.
DestStates == { [exists |-> FALSE, content |-> <<>>],
                [exists |-> TRUE, content |-> <<"z">>] }

\* What upload_file is handed as source_file: the path of a file, a path
\* where no file is, an open-able QIODevice, or something else.
SourceKinds == {"path", "missing", "device", "other"}

\* The **kwargs callers hand to the two helpers.
TransferBags ==
    { [finishedCallback |-> "fn"],
      [finishedCallback |-> "fn", errorCallback |-> "fn", abortSignal |-> "sig"],
      [errorCallback |-> "fn"] }

\* download_file(url, destination, **kwargs).  dest_str: destination is a
\* str; dir_ok: its folder exists.  The message emitted for a missing folder
\* has one argument where the signal takes two, which raises TypeError.
download_file(o, url_ok, dest_str, dir_ok, kw) ==
    IF ~dest_str THEN Raise(o, "ValueError")
    ELSE IF ~dir_ok THEN Raise(o, "TypeError")
    ELSE LET kw1 == SetItem(SetItem(SetItem(kw, "destination", "path"),
                                    "tmp_file", "QTemporaryFile"),
                            "readyRead", "fn")
             o1 == [o EXCEPT !.handleOpen = TRUE,
                             !.log = Append(@, "tmp_open")]
         IN  get(o1, url_ok, TRUE, kw1)

\* upload_file(url, source_file, **kwargs).  Both rejection messages format
\* the undefined name destination, which raises NameError.
upload_file(o, url_ok, src, kw) ==
    IF src \in {"missing", "other"} THEN Raise(o, "NameError")
    ELSE LET kw1 == SetItem(kw, "source_file", "QFile")
             o1 == [o EXCEPT !.handleOpen = TRUE,
                             !.log = Append(@, "source_open")]
         IN  put(o1, url_ok, TRUE, TRUE, kw1)

\* __download_readyRead: kwargs['tmp_file'].write(reply.readAll())
download_readyRead(o, b) ==
    [o EXCEPT !.tmp = Append(@, b), !.body = Append(@, b)]

\* Transfers are started one after another; ops holds the latest one only,
\* the manager keeps nothing of a transfer that is over.
DownloadFile ==
    /\ \A j \in DOMAIN ops : ops[j].pc = "done"
    /\ \E url_ok \in BOOLEAN, dest_str \in BOOLEAN, dir_ok \in BOOLEAN,
          kw \in TransferBags, pre \in DestStates :
         ops' = Append(<<>>,
                  download_file([NewOp("GET", url_ok, TRUE, TRUE, kw)
                                   EXCEPT !.helper = "download",
                                          !.destBefore = pre, !.dest = pre],
                                url_ok, dest_str, dir_ok, kw))
    /\ TransferFrame

UploadFile ==
    /\ \A j \in DOMAIN ops : ops[j].pc = "done"
    /\ \E url_ok \in BOOLEAN, src \in SourceKinds, kw \in TransferBags :
         ops' = Append(<<>>,
                  upload_file([NewOp("PUT", url_ok, TRUE, TRUE, kw)
                                 EXCEPT !.helper = "upload"],
                              url_ok, src, kw))
    /\ TransferFrame

\* The in-flight reply of a download signals readyRead with one more byte.
ReadyRead ==
    /\ \E i \in DOMAIN ops, b \in Bytes :
         /\ ops[i].pc = "inflight"
         /\ ops[i].helper = "download"
         /\ Len(ops[i].tmp) < MaxBytes
         /\ ops' = [ops EXCEPT ![i] = download_readyRead(ops[i], b)]
    /\ TransferFrame

InitFiles ==
    /\ networkAccessible \in BOOLEAN
    /\ session = "token"
    /\ ops = <<>>
    /\ tokenfile = [kind |-> "absent", expires_at |-> 0]
    /\ now = 0
    /\ logins = <<>>

NextFiles ==
    \/ DownloadFile
    \/ UploadFile
    \/ ReadyRead
    \/ ReplyFinished
    \/ AbortSignal
    \/ NetworkChange

SpecFiles == InitFiles /\ [][NextFiles]_vars

----------------------------------------------------------------------------
(* login() and check_for_stored_token() *)

NoFile == [kind |-> "absent", expires_at |-> 0]

\* What may be stored at the token path: nothing, a file that cannot be
\* opened, a file that is not JSON, JSON without expires_at, or a token.
TokenFiles ==
    { NoFile,
      [kind |-> "unreadable", expires_at |-> 0],
      [kind |-> "notjson", expires_at |-> 0],
      [kind |-> "noexpiry", expires_at |-> 0] }
    \cup { [kind |-> "token", expires_at |-> e] : e \in 0..MaxTime }

\* The outcomes of the live probe osf.get_logged_in_user().
ProbeOutcomes == {"ok", "TokenExpiredError"}

TokenNotExpiredInclusive(file, t) == file.expires_at >= t

\* token["expires_at"] > time.time()
TokenNotExpired(file, t) == file.expires_at > t

\* The value returned ("True", "False", "None") or the exception raised, the
\* effects in program order, and the token file and session left behind.
check_for_stored_token(file, t, probe) ==
    LET result(ret, raised, log, f, s) ==
            [ret |-> ret, raised |-> raised, log |-> log, file |-> f,
             session |-> s]
    IN  IF file.kind = "absent"
        THEN result("False", "none", <<>>, file, session)
        ELSE IF file.kind = "unreadable"
        THEN result("none", "IOError", <<>>, file, session)
        ELSE IF file.kind = "notjson"
        THEN result("none", "ValueError", <<>>, file, session)
        ELSE IF file.kind = "noexpiry"
        THEN result("none", "KeyError", <<>>, file, session)
        ELSE IF TokenNotExpired(file, t)
        THEN IF probe = "ok"
             THEN result("True", "none", <<"probe">>, file, "stored")
             ELSE result("None", "none",
                         <<"probe", "reset_session", "remove",
                           "show_login_window">>,
                         NoFile, "none")
        ELSE result("False", "none", <<>>, file, session)

login(file, t, probe) ==
    LET c == check_for_stored_token(file, t, probe)
    IN  IF c.raised # "none" THEN c
        ELSE IF c.ret = "True"
        THEN [c EXCEPT !.log = Append(@, "dispatch_login")]
        ELSE [c EXCEPT !.log = Append(@, "show_login_window")]

Login ==
    /\ Len(logins) < MaxLogins
    /\ \E probe \in ProbeOutcomes :
         LET l == login(tokenfile, now, probe)
         IN  /\ logins' = Append(logins,
                    [file |-> tokenfile, now |-> now, probe |-> probe,
                     ret |-> l.ret, raised |-> l.raised, log |-> l.log,
                     fileAfter |-> l.file, sessionAfter |-> l.session])
             /\ tokenfile' = l.file
             /\ session' = l.session
    /\ UNCHANGED <<networkAccessible, ops, now>>

\* Time passes.
Tick ==
    /\ now < MaxTime
    /\ now' = now + 1
    /\ UNCHANGED <<networkAccessible, session, ops, tokenfile, logins>>

InitLogin ==
    /\ networkAccessible = TRUE
    /\ session = "none"
    /\ ops = <<>>
    /\ tokenfile \in TokenFiles
    /\ now = 0
    /\ logins = <<>>

NextLogin ==
    \/ Login
    \/ Tick

SpecLogin == InitLogin /\ [][NextLogin]_vars

----------------------------------------------------------------------------
(* Vocabulary of the properties *)

Last(s) == s[Len(s)]

\* The first k replies of an operation were all 301/302 redirects.
FirstAreRedirects(o, k) ==
    /\ Len(o.replies) >= k
    /\ \A i \in 1..k : o.replies[i] = "redirect"

\* The caller supplied a callable errorCallback.
HasErrorCallback(o) == CallableAt(o.callKwargs, "errorCallback")

\* A GET the caller started without passing redirect_count itself.
PlainGet(o) ==
    /\ o.method = "GET"
    /\ "redirect_count" \notin DOMAIN o.callKwargs

\* At least one request of the operation was dispatched.
Dispatched(o) == Count(o.log, "request") > 0

Terminals(o) == Count(o.log, "callback") + Count(o.log, "errorCallback")

ExpectedErrorCallbacks(o) == IF HasErrorCallback(o) THEN 1 ELSE 0

----------------------------------------------------------------------------
(* C1: a GET started without a caller-supplied redirect_count is re-issued *)
(* after each of up to five consecutive 301/302 replies; when a successful *)
(* reply follows, the success callback runs exactly once, with that final  *)
(* reply, and the error callback never; a sixth consecutive redirect is    *)
(* not re-issued: the error callback (if supplied) runs exactly once, one  *)
(* "Too Many redirects" notification is emitted and the success callback   *)
(* never runs.                                                             *)
C1_RedirectChasing ==
    \A i \in DOMAIN ops :
      LET o == ops[i]
          n == Len(o.replies)
      IN  PlainGet(o) =>
            /\ (o.pc = "inflight" /\ FirstAreRedirects(o, n))
                 => Count(o.log, "request") = n + 1
            /\ (n >= 1 /\ n <= MAX_REDIRECTS + 1
                /\ FirstAreRedirects(o, n - 1) /\ Last(o.replies) = "ok")
                 => /\ o.pc = "done"
                    /\ Count(o.log, "request") = n
                    /\ Count(o.log, "callback") = 1
                    /\ o.cbReply = n
                    /\ Count(o.log, "errorCallback") = 0
                    /\ Count(o.log, "too_many_redirects") = 0
            /\ FirstAreRedirects(o, MAX_REDIRECTS + 1)
                 => /\ n = MAX_REDIRECTS + 1
                    /\ o.pc = "done"
                    /\ Count(o.log, "request") = MAX_REDIRECTS + 1
                    /\ Count(o.log, "errorCallback") = ExpectedErrorCallbacks(o)
                    /\ Count(o.log, "too_many_redirects") = 1
                    /\ Count(o.log, "callback") = 0

\* A GET that was redirected five times and then succeeded.
C1_Witness ==
    \E i \in DOMAIN ops :
      /\ PlainGet(ops[i])
      /\ Len(ops[i].replies) = MAX_REDIRECTS + 1
      /\ FirstAreRedirects(ops[i], MAX_REDIRECTS)
      /\ Last(ops[i].replies) = "ok"
      /\ Count(ops[i].log, "callback") = 1

(* C2: for every logical operation, whatever the order of completions,     *)
(* redirects and aborts, the success callback and the error callback       *)
(* together are invoked at most once, and never both.                      *)
C2_AtMostOneTerminal ==
    \A i \in DOMAIN ops :
      /\ Terminals(ops[i]) <= 1
      /\ ~(Count(ops[i].log, "callback") > 0
           /\ Count(ops[i].log, "errorCallback") > 0)

\* An operation that was redirected and then aborted by its caller.
C2_Witness ==
    \E i \in DOMAIN ops :
      /\ Len(ops[i].replies) >= 2
      /\ ops[i].replies[1] = "redirect"
      /\ Last(ops[i].replies) = "OperationCanceledError"
      /\ Count(ops[i].log, "errorCallback") = 1

(* C3: every operation ended by a finished reply ends with a terminal      *)
(* outcome: the success callback or the error callback was invoked, or an  *)
(* error notification was emitted.  Read in the claim's favour: a          *)
(* cancelled operation whose caller supplied no error callback has nothing *)
(* to invoke, and a handler that ended in an exception (KeyError for a     *)
(* redirected POST or PUT, an exception of the re-issuing get) is left     *)
(* out; the handlers that return normally already break the claim.         *)
C3_EveryFinishedReplyTerminal ==
    \A i \in DOMAIN ops :
      LET o == ops[i]
      IN  (o.pc = "done" /\ Len(o.replies) > 0) =>
            \/ o.outcome \in {"TypeError", "NameError", "KeyError"}
            \/ Terminals(o) > 0
            \/ Count(o.log, "error_message") > 0
            \/ Count(o.log, "too_many_redirects") > 0
            \/ (Last(o.replies) = "OperationCanceledError"
                /\ ~CallableAt(o.kwargs, "errorCallback"))

(* C4 as claimed: the hop counter of every dispatched operation is within  *)
(* 0..MAX_REDIRECTS in every reachable state.                              *)
C4_CounterAlwaysWithinLimit ==
    \A i \in DOMAIN ops :
      LET o == ops[i]
      IN  /\ \A j \in DOMAIN o.issuedAt :
               o.issuedAt[j] >= 0 /\ o.issuedAt[j] <= MAX_REDIRECTS
          /\ (Dispatched(o) /\ "redirect_count" \in DOMAIN o.kwargs)
               => (o.kwargs["redirect_count"] >= 0
                   /\ o.kwargs["redirect_count"] <= MAX_REDIRECTS)

(* C4 amended: the hop counter of an operation started without a           *)
(* caller-supplied redirect_count is within 0..MAX_REDIRECTS in every      *)
(* reachable state; and for every operation, whatever counter it started   *)
(* with, a request is re-issued only with the counter raised by one from a *)
(* value below MAX_REDIRECTS: none is re-issued once it is at the limit.   *)
C4_CounterWithinLimit ==
    \A i \in DOMAIN ops :
      LET o == ops[i]
      IN  /\ "redirect_count" \notin DOMAIN o.callKwargs =>
               /\ \A j \in DOMAIN o.issuedAt :
                    o.issuedAt[j] >= 0 /\ o.issuedAt[j] <= MAX_REDIRECTS
               /\ "redirect_count" \in DOMAIN o.kwargs
                    => (o.kwargs["redirect_count"] >= 0
                        /\ o.kwargs["redirect_count"] <= MAX_REDIRECTS)
          /\ \A j \in 2..Len(o.issuedAt) :
               /\ o.issuedAt[j] = o.issuedAt[j-1] + 1
               /\ o.issuedAt[j-1] < MAX_REDIRECTS
          /\ Count(o.log, "request") <= Len(o.replies) + 1

\* A GET whose counter reached the limit and that a further redirect ended.
C4_Witness ==
    \E i \in DOMAIN ops :
      /\ PlainGet(ops[i])
      /\ ops[i].outcome = "toomany"
      /\ Len(ops[i].issuedAt) = MAX_REDIRECTS + 1
      /\ Last(ops[i].issuedAt) = MAX_REDIRECTS

(* C5: when a reply finishes as "operation cancelled", no error            *)
(* notification is emitted for the operation, the error callback (if       *)
(* supplied) is invoked exactly once and the success callback is not.      *)
C5_CancelledIsQuiet ==
    \A i \in DOMAIN ops :
      LET o == ops[i]
      IN  (Len(o.replies) > 0 /\ Last(o.replies) = "OperationCanceledError") =>
            /\ o.pc = "done"
            /\ Count(o.log, "error_message") = 0
            /\ Count(o.log, "too_many_redirects") = 0
            /\ Count(o.log, "errorCallback") = ExpectedErrorCallbacks(o)
            /\ Count(o.log, "callback") = 0

\* A cancelled operation whose error callback was invoked.
C5_Witness ==
    \E i \in DOMAIN ops :
      /\ Len(ops[i].replies) > 0
      /\ Last(ops[i].replies) = "OperationCanceledError"
      /\ Count(ops[i].log, "errorCallback") = 1

(* C6 as claimed: when a reply finishes as "authentication required", the  *)
(* logout event is dispatched and the login window shown, the logout event *)
(* not after the error notification, which is still emitted, and the error *)
(* callback (if supplied) is invoked once.                                 *)
C6_LogoutNotAfterNotification ==
    \A i \in DOMAIN ops :
      LET o == ops[i]
      IN  (Len(o.replies) > 0
           /\ Last(o.replies) = "AuthenticationRequiredError") =>
            /\ Count(o.log, "dispatch_logout") = 1
            /\ Count(o.log, "show_login_window") = 1
            /\ Count(o.log, "error_message") = 1
            /\ FirstIndex(o.log, "dispatch_logout")
                 <= FirstIndex(o.log, "error_message")
            /\ Count(o.log, "errorCallback") = ExpectedErrorCallbacks(o)

(* C6 amended: when a reply finishes as "authentication required", the     *)
(* same run of the completion handler emits the error notification, then   *)
(* dispatches the logout event, then shows the login window, then invokes  *)
(* the error callback (if supplied) once: the logout event directly        *)
(* follows the notification, and the success callback is not invoked.      *)
C6_NotificationThenLogout ==
    \A i \in DOMAIN ops :
      LET o == ops[i]
          e == FirstIndex(o.log, "error_message")
      IN  (Len(o.replies) > 0
           /\ Last(o.replies) = "AuthenticationRequiredError") =>
            /\ o.pc = "done"
            /\ Count(o.log, "error_message") = 1
            /\ Count(o.log, "dispatch_logout") = 1
            /\ Count(o.log, "show_login_window") = 1
            /\ FirstIndex(o.log, "dispatch_logout") = e + 1
            /\ FirstIndex(o.log, "show_login_window") = e + 2
            /\ Count(o.log, "errorCallback") = ExpectedErrorCallbacks(o)
            /\ HasErrorCallback(o) => FirstIndex(o.log, "errorCallback") = e + 3
            /\ Count(o.log, "callback") = 0

\* An operation with an error callback that ended as authentication required.
C6_Witness ==
    \E i \in DOMAIN ops :
      /\ Len(ops[i].replies) > 0
      /\ Last(ops[i].replies) = "AuthenticationRequiredError"
      /\ Count(ops[i].log, "dispatch_logout") = 1
      /\ Count(ops[i].log, "errorCallback") = 1

(* C7: whenever the success callback is invoked, directly or after         *)
(* redirects, its keyword arguments hold none of the transport-internal    *)
(* keys and hold every other caller-supplied keyword argument unchanged.   *)
C7_CallbackKwargsStripped ==
    \A i \in DOMAIN ops :
      LET o == ops[i]
      IN  Count(o.log, "callback") > 0 =>
            /\ DOMAIN o.cbKwargs \cap InternalKeys = {}
            /\ \A k \in DOMAIN o.callKwargs \ InternalKeys :
                 k \in DOMAIN o.cbKwargs /\ o.cbKwargs[k] = o.callKwargs[k]

\* A redirected GET, called with internal and other kwargs, that succeeded.
C7_Witness ==
    \E i \in DOMAIN ops :
      /\ Count(ops[i].log, "callback") = 1
      /\ ops[i].replies[1] = "redirect"
      /\ "abortSignal" \in DOMAIN ops[i].callKwargs
      /\ "progressDialog" \in DOMAIN ops[i].cbKwargs

(* C8: a call of get, post, put or delete made while the network is not    *)
(* accessible emits the "No network access" error notification, dispatches *)
(* no request and returns normally.                                        *)
C8_NoNetworkIsNotified ==
    \A i \in DOMAIN ops :
      LET o == ops[i]
      IN  ~o.netAtCall =>
            /\ Count(o.log, "no_network_message") = 1
            /\ Count(o.log, "request") = 0
            /\ o.outcome # "NameError"

(* C9: with the network accessible, a call whose url is neither a string   *)
(* nor a QUrl, or whose callback is not callable, ends with a validation   *)
(* error: no request was dispatched, no completion handler connected, and  *)
(* no callback is ever invoked for it.                                     *)
C9_ValidationFailsFast ==
    \A i \in DOMAIN ops :
      LET o == ops[i]
      IN  (o.netAtCall /\ (~o.url_ok \/ ~o.cb_ok)) =>
            /\ o.pc = "done"
            /\ o.outcome = "TypeError"
            /\ o.log = <<>>
            /\ o.replies = <<>>
            /\ ~o.abortConnected

\* A call with a valid url and a callback that is not callable.
C9_Witness ==
    \E i \in DOMAIN ops :
      /\ ops[i].netAtCall
      /\ ops[i].url_ok
      /\ ~ops[i].cb_ok
      /\ ops[i].outcome = "TypeError"

(* C10: login() dispatches a login event without showing the login window *)
(* if and only if a stored token exists with expires_at > now and the live *)
(* probe with it succeeds; with no token file, an expired token or a token *)
(* the probe rejects it shows the login window and dispatches no login     *)
(* event; for an expired token no probe is made.                           *)
C10_LoginFromStoredToken ==
    \A i \in DOMAIN logins :
      LET l == logins[i]
          live == l.file.kind = "token" /\ l.file.expires_at > l.now
          expired == l.file.kind = "token" /\ l.file.expires_at <= l.now
      IN  /\ (Count(l.log, "dispatch_login") = 1
              /\ Count(l.log, "show_login_window") = 0)
                <=> (live /\ l.probe = "ok")
          /\ (l.file.kind = "absent" \/ expired
              \/ (live /\ l.probe = "TokenExpiredError"))
                => /\ l.raised = "none"
                   /\ Count(l.log, "show_login_window") >= 1
                   /\ Count(l.log, "dispatch_login") = 0
          /\ expired => Count(l.log, "probe") = 0
          /\ live => Count(l.log, "probe") = 1

\* A login from a stored, unexpired token that the probe accepted.
C10_Witness ==
    \E i \in DOMAIN logins :
      /\ logins[i].file.kind = "token"
      /\ logins[i].file.expires_at > logins[i].now
      /\ logins[i].now > 0
      /\ logins[i].probe = "ok"
      /\ Count(logins[i].log, "dispatch_login") = 1

(* C11: loading the stored token never raises: with the token file       *)
(* missing, unreadable, not JSON or lacking expires_at,                    *)
(* check_for_stored_token returns "not authenticated" as a value.          *)
C11_LoadNeverRaises ==
    \A i \in DOMAIN logins :
      LET l == logins[i]
      IN  l.file.kind \in {"absent", "unreadable", "notjson", "noexpiry"} =>
            /\ l.raised = "none"
            /\ l.ret \in {"False", "None"}

(* C12: after check_for_stored_token returns for an invalid stored token, *)
(* expired or rejected by the probe, the session holds no token and the    *)
(* token file no longer exists.                                            *)
C12_InvalidTokenDiscarded ==
    \A i \in DOMAIN logins :
      LET l == logins[i]
          live == l.file.kind = "token" /\ l.file.expires_at > l.now
          expired == l.file.kind = "token" /\ l.file.expires_at <= l.now
      IN  (expired \/ (live /\ l.probe = "TokenExpiredError")) =>
            /\ l.sessionAfter = "none"
            /\ l.fileAfter.kind = "absent"

(* C13: every finished reply is released (reply.deleteLater()) exactly    *)
(* once, on every exit path of __reply_finished.  Read in the claim's      *)
(* favour: a redirected GET whose re-issuing get() raised is left out.     *)
C13_ReplyReleasedOnce ==
    \A i \in DOMAIN ops :
      LET o == ops[i]
      IN  o.outcome \notin {"TypeError", "NameError"} =>
            Count(o.log, "deleteLater") = Len(o.replies)

\* The abort signal was emitted while the operation's request was in flight.
AbortedInFlight(o) == "inflight" \in o.aborts

\* The operation ended as cancelled: error callback once if there is one, no
\* notification, no success callback.
EndedCancelled(o) ==
    /\ o.pc = "done"
    /\ Last(o.replies) = "OperationCanceledError"
    /\ Count(o.log, "errorCallback") = ExpectedErrorCallbacks(o)
    /\ Count(o.log, "error_message") = 0
    /\ Count(o.log, "too_many_redirects") = 0
    /\ Count(o.log, "callback") = 0

\* An emission of the abort signal on an operation that is over leaves its
\* history as it was.
AbortAfterEndIsNoOp ==
    [][\A i \in DOMAIN ops :
         (ops[i].pc = "done" /\ i \in DOMAIN ops') =>
           /\ ops'[i].log = ops[i].log
           /\ ops'[i].replies = ops[i].replies
           /\ ops'[i].pc = "done"]_vars

\* C19 as stated: for get, post, put and delete alike, an abort signal
\* emitted while the request is in flight ends the operation as cancelled.
C19_AbortCancelsEveryMethod ==
    \A i \in DOMAIN ops : AbortedInFlight(ops[i]) => EndedCancelled(ops[i])

\* C19: for get, put and delete, an abort signal emitted while a request of
\* the operation is in flight, first or re-issued, ends the operation as
\* cancelled; emitted after the operation is over it changes nothing.
C19_AbortCancels ==
    /\ [](\A i \in DOMAIN ops :
            (ops[i].method # "POST" /\ AbortedInFlight(ops[i])) =>
              EndedCancelled(ops[i]))
    /\ AbortAfterEndIsNoOp

\* A GET aborted during a redirect hop, and the signal emitted again later.
C19_Witness ==
    \E i \in DOMAIN ops :
      /\ ops[i].aborts = {"inflight", "done"}
      /\ Len(ops[i].replies) >= 2
      /\ Last(ops[i].replies) = "OperationCanceledError"
      /\ Count(ops[i].log, "errorCallback") = 1

----------------------------------------------------------------------------
(* The file helpers: claims checked under SpecFiles *)

\* C14: when a download_file or upload_file operation has ended, on whatever
\* path, the scratch file or source handle the helper opened is closed.
C14_HandlesClosedAtEnd ==
    \A i \in DOMAIN ops :
      LET o == ops[i]
      IN  (o.helper # "none" /\ o.pc = "done") => ~o.handleOpen

\* C15: once the finished callback of a download is invoked, the destination
\* holds exactly the bytes of the final response and the scratch file is
\* closed.
C15_DownloadRoundTrip ==
    \A i \in DOMAIN ops :
      LET o == ops[i]
      IN  (o.helper = "download" /\ Count(o.log, "finishedCallback") > 0) =>
            /\ o.dest = [exists |-> TRUE, content |-> o.body]
            /\ ~o.handleOpen

\* C20: a completed download closes the scratch file, then deletes a
\* pre-existing destination, then copies the scratch contents, then invokes
\* the finished callback; a failed deletion or copy emits 'Error saving
\* file', performs no later step and never invokes the finished callback, so
\* the callback runs only when the destination holds the scratch contents.
C20_DownloadCompletionOrder ==
    \A i \in DOMAIN ops :
      LET o == ops[i]
          at(e) == FirstIndex(o.log, e)
          has(e) == Count(o.log, e) > 0
          removeTried == has("dest_remove") \/ has("dest_remove_failed")
          failed == has("dest_remove_failed") \/ has("dest_copy_failed")
      IN  (o.helper = "download" /\ has("callback")) =>
            /\ Count(o.log, "tmp_close") = 1
            /\ at("callback") < at("tmp_close")
            /\ ~o.handleOpen
            /\ removeTried <=> o.destBefore.exists
            /\ has("dest_remove") => at("tmp_close") < at("dest_remove")
            /\ has("dest_remove_failed") =>
                  /\ o.log[at("dest_remove_failed") - 1] = "tmp_close"
                  /\ ~has("dest_copy") /\ ~has("dest_copy_failed")
            /\ has("dest_copy") =>
                  /\ at("tmp_close") < at("dest_copy")
                  /\ has("dest_remove") => at("dest_remove") < at("dest_copy")
            /\ failed =>
                  /\ Count(o.log, "error_saving_file") = 1
                  /\ ~has("dest_copy")
                  /\ ~has("finishedCallback")
                  /\ o.log[Len(o.log) - 1] = "error_saving_file"
            /\ ~failed =>
                  /\ has("dest_copy")
                  /\ ~has("error_saving_file")
                  /\ has("finishedCallback")
                       <=> CallableAt(o.callKwargs, "finishedCallback")
            /\ has("finishedCallback") =>
                  /\ Count(o.log, "finishedCallback") = 1
                  /\ at("dest_copy") < at("finishedCallback")
                  /\ o.dest = [exists |-> TRUE, content |-> o.tmp]

\* A download of two bytes over an existing file whose finished callback ran.
C20_Witness ==
    \E i \in DOMAIN ops :
      /\ ops[i].helper = "download"
      /\ ops[i].destBefore.exists
      /\ Len(ops[i].tmp) >= 2
      /\ Count(ops[i].log, "dest_remove") = 1
      /\ Count(ops[i].log, "finishedCallback") = 1
      /\ ops[i].dest.content = ops[i].tmp

----------------------------------------------------------------------------
(* The session token: claims checked under SpecSession *)

\* The number of requests the operation in flight at i has dispatched, 0
\* when the next operation at i is a new one.
RequestsBefore(i) ==
    IF i \in DOMAIN ops /\ ops[i].pc = "inflight"
    THEN Count(ops[i].log, "request") ELSE 0

\* C16: every request carries the session token read when it was built, the
\* header being attached just before the dispatch, and a request in flight
\* keeps that header whatever happens to the session token meanwhile.
C16_HeaderCapturedAtBuild ==
    /\ [](\A i \in DOMAIN ops : \A k \in DOMAIN ops[i].log :
            ops[i].log[k] = "request" =>
              k > 1 /\ ops[i].log[k - 1] = "add_token")
    /\ [][\A i \in DOMAIN ops' :
            /\ (/\ i \in DOMAIN ops => ops'[i] # ops[i]
                /\ Count(ops'[i].log, "request") > RequestsBefore(i)) =>
                  ops'[i].auth = session
            /\ (/\ RequestsBefore(i) > 0
                /\ Count(ops'[i].log, "request") = RequestsBefore(i)) =>
                  ops'[i].auth = ops[i].auth]_vars

\* A request in flight carries one token while the session holds another.
C16_Witness ==
    \E i \in DOMAIN ops :
      /\ ops[i].pc = "inflight"
      /\ ops[i].auth = "token"
      /\ session = "token2"

\* C18: a request whose target host is not an OSF server, first or
\* re-issued for a redirect, carries no Authorization header.
C18_TokenOnlyToOsf ==
    \A i \in DOMAIN ops :
      (Dispatched(ops[i]) /\ ops[i].host # "osf") => ops[i].auth = "none"

----------------------------------------------------------------------------
(* Operations in flight at once: claims checked under SpecConcurrent *)

\* C17: when two operations were in flight at once and the replies of both
\* finished with the authentication-required error, one logout event was
\* dispatched and the login window was shown once, not once per reply.
C17_OneLogoutPerTransition ==
    \A j \in DOMAIN ops : \A i \in ops[j].overlaps :
      (/\ ops[i].pc = "done"
       /\ Last(ops[i].replies) = "AuthenticationRequiredError"
       /\ ops[j].pc = "done"
       /\ Last(ops[j].replies) = "AuthenticationRequiredError") =>
        /\ Count(ops[i].log, "dispatch_logout")
             + Count(ops[j].log, "dispatch_logout") = 1
        /\ Count(ops[i].log, "show_login_window")
             + Count(ops[j].log, "show_login_window") = 1

----------------------------------------------------------------------------
(* The login window: checked under SpecLogin *)

\* C22: one call of login() shows the login window at most once, whatever
\* the stored-token check finds.
C22_LoginWindowAtMostOnce ==
    \A i \in DOMAIN logins :
      Count(logins[i].log, "show_login_window") <= 1

----------------------------------------------------------------------------
(* The session after an authentication failure: under SpecConcurrent *)

\* Operation i was over, with the authentication-required error, before
\* operation j was started.
AuthFailedBefore(i, j) ==
    /\ i < j
    /\ i \notin ops[j].overlaps
    /\ Len(ops[i].replies) > 0
    /\ Last(ops[i].replies) = "AuthenticationRequiredError"

\* C21: once a reply that finished with the authentication-required error
\* has been handled the session holds no token, and a request built
\* afterwards carries no Authorization header.
C21_AnonymousAfterAuthError ==
    /\ \A i \in DOMAIN ops :
         (Len(ops[i].replies) > 0
            /\ Last(ops[i].replies) = "AuthenticationRequiredError") =>
           session = "none"
    /\ \A j \in DOMAIN ops : \A i \in DOMAIN ops :
         (AuthFailedBefore(i, j) /\ Dispatched(ops[j])) =>
           ops[j].auth = "none"

----------------------------------------------------------------------------
(* Redirected downloads and the destination file: under SpecFiles *)

\* C23: the scratch file of a download holds the bytes of the response now
\* being received and nothing else: no byte of the body of an earlier
\* redirect response is in it.
C23_ScratchHoldsFinalBodyOnly ==
    \A i \in DOMAIN ops :
      (ops[i].helper = "download" /\ Dispatched(ops[i])) =>
        ops[i].tmp = ops[i].body

\* C24 as stated: a download that was given a finished callback and ended
\* without invoking it leaves a pre-existing destination file as it was.
C24_NoCallbackLeavesDestination ==
    \A i \in DOMAIN ops :
      LET o == ops[i]
      IN  (/\ o.helper = "download" /\ o.pc = "done"
           /\ o.destBefore.exists
           /\ CallableAt(o.callKwargs, "finishedCallback")
           /\ Count(o.log, "finishedCallback") = 0) =>
            o.dest = o.destBefore

\* C24: a pre-existing destination file is unchanged unless the download
\* got as far as deleting it; after a failed copy it is gone and nothing is
\* in its place, after a copy it is replaced by the scratch contents.
C24_DestinationKeptUntilRemoved ==
    \A i \in DOMAIN ops :
      LET o == ops[i]
          has(e) == Count(o.log, e) > 0
      IN  (o.helper = "download" /\ o.destBefore.exists) =>
            /\ ~has("dest_remove") => o.dest = o.destBefore
            /\ has("dest_copy_failed") =>
                  /\ has("dest_remove")
                  /\ o.dest = [exists |-> FALSE, content |-> <<>>]
                  /\ ~has("finishedCallback")
            /\ has("dest_copy") =>
                  /\ has("dest_remove")
                  /\ o.dest = [exists |-> TRUE, content |-> o.tmp]

\* A download over an existing file whose deletion failed after bytes had
\* arrived: the old file is still there.
C24_Witness ==
    \E i \in DOMAIN ops :
      /\ ops[i].helper = "download"
      /\ ops[i].destBefore.exists
      /\ Len(ops[i].tmp) > 0
      /\ Count(ops[i].log, "dest_remove_failed") = 1
      /\ ops[i].dest = ops[i].destBefore

----------------------------------------------------------------------------
(* Redirect counters of operations in flight at once: under SpecConcurrent *)

\* The number of 301/302 replies the operation has received.
Redirects(o) == Count(o.replies, "redirect")

\* C25: the hop counter, the number of requests and the redirect-limit
\* failure of a GET depend on the redirects that operation itself received
\* and on nothing else; a reply of one operation changes no other operation.
C25_CountersIndependent ==
    /\ [](\A i \in DOMAIN ops :
            LET o == ops[i]
            IN  Dispatched(o) =>
                  /\ \A k \in DOMAIN o.issuedAt : o.issuedAt[k] = k - 1
                  /\ Len(o.issuedAt) =
                       1 + (IF Redirects(o) > MAX_REDIRECTS THEN MAX_REDIRECTS
                            ELSE Redirects(o))
                  /\ Count(o.log, "too_many_redirects") =
                       (IF Redirects(o) > MAX_REDIRECTS THEN 1 ELSE 0)
                  /\ o.pc = "inflight" =>
                       o.kwargs["redirect_count"] = Redirects(o))
    /\ [][\A i \in DOMAIN ops :
            ops'[i].replies = ops[i].replies => ops'[i] = ops[i]]_vars

\* Two GETs were in flight at once; one ran into the redirect limit while
\* the other, redirected once, is still in flight with its counter at 1.
C25_Witness ==
    \E j \in DOMAIN ops : \E i \in ops[j].overlaps :
      /\ Count(ops[i].log, "too_many_redirects") = 1
      /\ ops[j].pc = "inflight"
      /\ ops[j].kwargs["redirect_count"] = 1
      /\ ops[j].issuedAt = <<0, 1>>

====
